---------------------------- MODULE Spec2Model ----------------------------
(***************************************************************************)
(* A model of src/copula.py: the Copula class (constructor, parameter      *)
(* estimator, CDF and derivative evaluators) and its two static methods    *)
(* compute_empirical and select_copula.                                    *)
(*                                                                         *)
(* Numbers.  Observations and thresholds are points of the grid            *)
(* np.linspace(0.0, 1.0, 50): the integer k stands for the float k/49.     *)
(* Kendall's tau and the closed-form thetas are exact rationals            *)
(* [kind |-> "rat", n, d] in lowest terms; "nan" and "inf" are the IEEE    *)
(* values numpy produces.  Results of transcendental formulas (powers,     *)
(* exp, log, the simplex minimiser) are kept as terms that record the      *)
(* formula and its arguments; the branch structure around them is exact.   *)
(***************************************************************************)
EXTENDS Integers, Sequences, FiniteSets, TLC

VARIABLES pc, data, inst, ctor, out

vars == <<pc, data, inst, ctor, out>>

-----------------------------------------------------------------------------
(* Bounds of the model *)

\* longest observation sequence handed to the constructor / static methods
MaxN == 4
\* observations are drawn from the grid points 0..MaxVal and the last one
MaxVal == 2
\* squared-deviation costs are drawn from 0..MaxCost
MaxCost == 1

(* Program constants *)

\* number of thresholds: base = np.linspace(0.0,1.0,50)
GridSize == 50
\* theta stored when tau == 1
Sentinel == 10000

GridLast == GridSize - 1

-----------------------------------------------------------------------------
(* Values *)

None == [kind |-> "none"]
NaN == [kind |-> "nan"]
Inf == [kind |-> "inf"]

Abs(x) == IF x < 0 THEN -x ELSE x

RECURSIVE GCD(_, _)
GCD(a, b) == IF b = 0 THEN a ELSE GCD(b, a % b)

\* the rational n/d, d > 0, in lowest terms
Rat(n, d) ==
    LET g == GCD(Abs(n), d)
    IN  [kind |-> "rat", n |-> n \div g, d |-> d \div g]

IntVal(k) == Rat(k, 1)

IsRat(x) == x.kind = "rat"

\* IEEE arithmetic on rationals: nan propagates, x/0 is inf (x > 0) or nan
RatSub(a, b) ==
    IF IsRat(a) /\ IsRat(b) THEN Rat(a.n * b.d - b.n * a.d, a.d * b.d) ELSE NaN

RatMul(a, b) ==
    IF IsRat(a) /\ IsRat(b) THEN Rat(a.n * b.n, a.d * b.d) ELSE NaN

RatDiv(a, b) ==
    IF IsRat(a) /\ IsRat(b)
    THEN IF b.n = 0
         THEN (IF a.n > 0 THEN Inf ELSE NaN)
         ELSE IF b.n > 0 THEN Rat(a.n * b.d, a.d * b.n)
                         ELSE Rat(-(a.n * b.d), a.d * (-b.n))
    ELSE NaN

ISqrt(m) == CHOOSE r \in 0..m : r * r <= m /\ m < (r + 1) * (r + 1)

-----------------------------------------------------------------------------
(* scipy.stats.kendalltau (tau-b), as called on line 29.  The value is     *)
(* exact when the product under the root is a square, as it is for          *)
(* sequences without ties, and nan when one sequence is constant or has     *)
(* fewer than two elements.                                                 *)

PairsOf(n) == {p \in (1..n) \X (1..n) : p[1] < p[2]}

KendallTau(U, V) ==
    LET P    == PairsOf(Len(U))
        conc == Cardinality({p \in P : (U[p[1]] - U[p[2]]) * (V[p[1]] - V[p[2]]) > 0})
        disc == Cardinality({p \in P : (U[p[1]] - U[p[2]]) * (V[p[1]] - V[p[2]]) < 0})
        xtie == Cardinality({p \in P : U[p[1]] = U[p[2]]})
        ytie == Cardinality({p \in P : V[p[1]] = V[p[2]]})
        n0   == Cardinality(P)
        den2 == (n0 - xtie) * (n0 - ytie)
    IN  IF den2 = 0 THEN NaN ELSE Rat(conc - disc, ISqrt(den2))

-----------------------------------------------------------------------------
(* Comparisons of a theta with an integer, as numpy/Python floats compare *)

\* theta < k
ThetaLt(theta, k) ==
    CASE theta.kind = "rat"  -> theta.n < k * theta.d
      [] theta.kind = "fmin" -> k = 0 /\ theta.sign < 0
      [] OTHER               -> FALSE

\* theta == k
ThetaEq(theta, k) ==
    CASE theta.kind = "rat"  -> theta.n = k * theta.d
      [] theta.kind = "fmin" -> k = 0 /\ theta.sign = 0
      [] OTHER               -> FALSE

-----------------------------------------------------------------------------
(* The Copula object *)

Supported == {"clayton", "frank", "gumbel"}

\* Python truthiness of the cname argument: None and '' are falsy
Truthy(cname) == cname \notin {"None", ""}

\* -fmin(self._frank_help, -5, disp=False)[0]: the minimiser's answer is a
\* function of tau; only its sign is interpreted.  The objective's root is
\* strictly negative for tau > -1 (theta > 0); at tau = -1 the root is 0,
\* where the objective is 0/0, and for tau = nan the objective is nan
\* everywhere, so the float the simplex stops at may have either sign.
FrankSigns(tau) ==
    IF IsRat(tau) /\ tau.n > -tau.d THEN {1} ELSE {-1, 0, 1}

FrankMin(tau, sg) == [kind |-> "fmin", tau |-> tau, sign |-> sg]

\* a variant of ClaytonTheta: the sentinel is taken for every tau >= 1/2
ClaytonTheta_SentinelEarly(tau) ==
    IF IsRat(tau) /\ 2 * tau.n >= tau.d
    THEN IntVal(Sentinel)
    ELSE RatDiv(RatMul(IntVal(2), tau), RatSub(IntVal(1), tau))

ClaytonTheta(tau) ==
    IF ThetaEq(tau, 1)
    THEN IntVal(Sentinel)
    ELSE RatDiv(RatMul(IntVal(2), tau), RatSub(IntVal(1), tau))

GumbelTheta(tau) ==
    IF ThetaEq(tau, 1)
    THEN IntVal(Sentinel)
    ELSE RatDiv(IntVal(1), RatSub(IntVal(1), tau))

\* _get_parameter: no branch for any other name, theta is left as it was
GetParameter(self, sg) ==
    CASE self.cname = "clayton" -> [self EXCEPT !.theta = ClaytonTheta(self.tau)]
      [] self.cname = "frank"   -> [self EXCEPT !.theta = FrankMin(self.tau, sg)]
      [] self.cname = "gumbel"  -> [self EXCEPT !.theta = GumbelTheta(self.tau)]
      [] OTHER                  -> self

\* a variant of GetCdf: an unknown name falls back to the Clayton closure
GetCdf_Fallback(self) ==
    IF self.cname \in Supported
    THEN [err |-> "none", fn |-> self.cname]
    ELSE [err |-> "none", fn |-> "clayton"]

\* _get_cdf: the closure of the family, or the Exception of line 124
GetCdf(self) ==
    IF self.cname \in Supported
    THEN [err |-> "none", fn |-> self.cname]
    ELSE [err |-> "UnsupportedDistribution", fn |-> "absent"]

\* _get_du: the closure of the family, or the Exception of line 167
GetDu(self) ==
    IF self.cname \in Supported
    THEN [err |-> "none", fn |-> self.cname]
    ELSE [err |-> "UnsupportedDistribution", fn |-> "absent"]

\* __init__, lines 25-29
InitFields(U, V, theta, cname) ==
    [U |-> U, V |-> V, theta |-> theta, cname |-> cname,
     tau |-> KendallTau(U, V), cdf |-> "absent", derivative |-> "absent"]

\* __init__, lines 30-32
InitFamily(self, sg) ==
    IF Truthy(self.cname)
    THEN LET s1 == GetParameter(self, sg)
             c  == GetCdf(s1)
         IN  IF c.err = "none"
             THEN [self |-> [s1 EXCEPT !.cdf = c.fn], err |-> "none",
                   raisedBy |-> "none", steps |-> <<"_get_parameter", "_get_cdf">>]
             ELSE [self |-> s1, err |-> c.err,
                   raisedBy |-> "_get_cdf", steps |-> <<"_get_parameter">>]
    ELSE [self |-> self, err |-> "none", raisedBy |-> "none", steps |-> <<>>]

\* a variant of InitDev: the derivative is built whether requested or not
InitDev_Always(r, dev) ==
    IF r.err = "none"
    THEN LET d == GetDu(r.self)
         IN  IF d.err = "none"
             THEN [r EXCEPT !.self.derivative = d.fn,
                            !.steps = Append(r.steps, "_get_du")]
             ELSE [r EXCEPT !.err = d.err, !.raisedBy = "_get_du"]
    ELSE r

\* __init__, lines 33-34
InitDev(r, dev) ==
    IF r.err = "none" /\ dev
    THEN LET d == GetDu(r.self)
         IN  IF d.err = "none"
             THEN [r EXCEPT !.self.derivative = d.fn,
                            !.steps = Append(r.steps, "_get_du")]
             ELSE [r EXCEPT !.err = d.err, !.raisedBy = "_get_du"]
    ELSE r

\* Copula(U, V, theta, cname, dev): the object under construction, the
\* exception that ended the constructor (if any), the method that raised it
\* and the calls that completed, in order
NewCopula(U, V, theta, cname, dev, sg) ==
    LET r0 == InitFamily(InitFields(U, V, theta, cname), sg)
        r1 == InitDev(r0, dev)
    IN  [r1 EXCEPT !.steps = <<"kendalltau">> \o r1.steps]

-----------------------------------------------------------------------------
(* The CDF closures returned by _get_cdf *)

\* the float of grid point k
GridVal(k) == Rat(k, GridLast)

\* an uninterpreted float: the named formula applied to its arguments
Term(fn, args) == [kind |-> "term", fn |-> fn, args |-> args]

\* np.multiply(U, V)
Multiply(U, V) == [i \in 1..Len(U) |-> RatMul(GridVal(U[i]), GridVal(V[i]))]

Raise(e) == [err |-> e, vals |-> <<>>]
Return(vals) == [err |-> "none", vals |-> vals]

\* a variant of ClaytonCdf: the test of theta against the domain is missing
ClaytonCdf_NoDomainCheck(U, V, theta) ==
    IF ThetaEq(theta, 0) THEN Return(Multiply(U, V))
    ELSE Return([i \in 1..Len(U) |->
                    IF U[i] > 0 THEN Term("clayton_cdf", <<U[i], V[i], theta>>)
                                ELSE IntVal(0)])

\* lines 83-90
ClaytonCdf(U, V, theta) ==
    IF ThetaLt(theta, 0) THEN Raise("ValueError")
    ELSE IF ThetaEq(theta, 0) THEN Return(Multiply(U, V))
    ELSE Return([i \in 1..Len(U) |->
                    IF U[i] > 0 THEN Term("clayton_cdf", <<U[i], V[i], theta>>)
                                ELSE IntVal(0)])

\* lines 94-102
FrankCdf(U, V, theta) ==
    IF ThetaLt(theta, 0) THEN Raise("ValueError")
    ELSE IF ThetaEq(theta, 0) THEN Return(Multiply(U, V))
    ELSE Return([i \in 1..Len(U) |-> Term("frank_cdf", <<U[i], V[i], theta>>)])

\* a variant of GumbelCdf: the domain test uses Clayton's bound 0
GumbelCdf_ZeroBound(U, V, theta) ==
    IF ThetaLt(theta, 0) THEN Raise("ValueError")
    ELSE IF ThetaEq(theta, 1) THEN Return(Multiply(U, V))
    ELSE Return([i \in 1..Len(U) |->
                    IF U[i] = 0 THEN IntVal(0)
                                ELSE Term("gumbel_cdf", <<U[i], V[i], theta>>)])

\* lines 106-120
GumbelCdf(U, V, theta) ==
    IF ThetaLt(theta, 1) THEN Raise("ValueError")
    ELSE IF ThetaEq(theta, 1) THEN Return(Multiply(U, V))
    ELSE Return([i \in 1..Len(U) |->
                    IF U[i] = 0 THEN IntVal(0)
                                ELSE Term("gumbel_cdf", <<U[i], V[i], theta>>)])

\* calling the closure stored in self.cdf
Cdf(fn, U, V, theta) ==
    CASE fn = "clayton" -> ClaytonCdf(U, V, theta)
      [] fn = "frank"   -> FrankCdf(U, V, theta)
      [] fn = "gumbel"  -> GumbelCdf(U, V, theta)

-----------------------------------------------------------------------------
(* The derivative closures returned by _get_du *)

\* "return v"
Same(v) == [i \in 1..Len(v) |-> GridVal(v[i])]

\* lines 134-142: no test of theta against the domain, v is not used
ClaytonDu(u, v, theta) ==
    IF ThetaEq(theta, 0) THEN Return(Same(v))
    ELSE Return([i \in 1..Len(u) |-> Term("clayton_du", <<u[i], theta>>)])

\* lines 146-153: no test of theta against the domain
FrankDu(u, v, theta) ==
    IF ThetaEq(theta, 0) THEN Return(Same(v))
    ELSE Return([i \in 1..Len(u) |-> Term("frank_du", <<u[i], v[i], theta>>)])

\* line 161: Copula(u,v,theta,'gumbel'), the auxiliary instance
GumbelAux(u, v, theta) == NewCopula(u, v, theta, "gumbel", FALSE, 0).self

\* a variant of GumbelDu: p1 is evaluated at the auxiliary instance's own
\* (re-estimated) theta
GumbelDu_StoredTheta(u, v, theta) ==
    IF ThetaEq(theta, 1) THEN Return(Same(v))
    ELSE LET aux == GumbelAux(u, v, theta)
             p1  == Cdf(aux.cdf, u, v, aux.theta)
         IN  IF p1.err # "none" THEN Raise(p1.err)
             ELSE Return([i \in 1..Len(u) |->
                     Term("gumbel_du", <<p1.vals[i], u[i], v[i], theta>>)])

\* lines 157-164: p1 comes from the auxiliary instance's cdf, called with
\* the theta of this call
GumbelDu(u, v, theta) ==
    IF ThetaEq(theta, 1) THEN Return(Same(v))
    ELSE LET aux == GumbelAux(u, v, theta)
             p1  == Cdf(aux.cdf, u, v, theta)
         IN  IF p1.err # "none" THEN Raise(p1.err)
             ELSE Return([i \in 1..Len(u) |->
                     Term("gumbel_du", <<p1.vals[i], u[i], v[i], theta>>)])

\* calling the closure stored in self.derivative
Du(fn, u, v, theta) ==
    CASE fn = "clayton" -> ClaytonDu(u, v, theta)
      [] fn = "frank"   -> FrankDu(u, v, theta)
      [] fn = "gumbel"  -> GumbelDu(u, v, theta)

-----------------------------------------------------------------------------
(* compute_empirical, lines 172-188 *)

\* sum(np.logical_and(u <= base[k], v <= base[k]))
LeftCount(u, v, k) == Cardinality({i \in 1..Len(u) : u[i] <= k /\ v[i] <= k})

\* a variant of RightCount: the comparisons of the lower tail
RightCount_LE(u, v, k) == Cardinality({i \in 1..Len(u) : u[i] <= k /\ v[i] <= k})

\* sum(np.logical_and(u >= base[k], v >= base[k]))
RightCount(u, v, k) == Cardinality({i \in 1..Len(u) : u[i] >= k /\ v[i] >= k})

\* left/base[k]**2
LeftStat(cnt, N, z) ==
    RatDiv(Rat(cnt, N), RatMul(GridVal(z), GridVal(z)))

\* right/(1-z)**2
RightStat(cnt, N, z) ==
    RatDiv(Rat(cnt, N), RatMul(RatSub(IntVal(1), GridVal(z)),
                               RatSub(IntVal(1), GridVal(z))))

EmpStart == [z_left |-> <<>>, L |-> <<>>, z_right |-> <<>>, R |-> <<>>,
             err |-> "none"]

\* lines 182-184
EmpLeft(acc, u, v, k) ==
    LET cnt == LeftCount(u, v, k)
    IN  IF cnt > 0
        THEN [acc EXCEPT !.z_left = Append(@, k),
                         !.L = Append(@, LeftStat(cnt, Len(u), k))]
        ELSE acc

\* lines 185-187: the statistic reads z_right[k], position k of the list
\* (Python counts from 0), not the threshold that was just appended
EmpRight(acc, u, v, k) ==
    LET cnt == RightCount(u, v, k)
        zr  == Append(acc.z_right, k)
    IN  IF cnt > 0
        THEN IF k + 1 <= Len(zr)
             THEN [acc EXCEPT !.z_right = zr,
                              !.R = Append(@, RightStat(cnt, Len(u), zr[k + 1]))]
             ELSE [acc EXCEPT !.z_right = zr, !.err = "IndexError"]
        ELSE acc

\* the loop of line 179, from threshold k on
RECURSIVE EmpLoop(_, _, _, _)
EmpLoop(acc, u, v, k) ==
    IF k >= GridSize \/ acc.err # "none"
    THEN acc
    ELSE EmpLoop(EmpRight(EmpLeft(acc, u, v, k), u, v, k), u, v, k + 1)

ComputeEmpirical(u, v) == EmpLoop(EmpStart, u, v, 0)

-----------------------------------------------------------------------------
(* select_copula, lines 192-218 *)

\* a > b on costs: finite floats (integers here) and inf
CostGt(a, b) ==
    \/ a.kind = "inf" /\ b.kind = "rat"
    \/ a.kind = "rat" /\ b.kind = "rat" /\ a.n > b.n

\* np.argmax: the position, counted from 0, of the first nan if there is
\* one, otherwise of the first largest entry
ArgMax(c) ==
    (IF \E i \in 1..Len(c) : c[i].kind = "nan"
     THEN CHOOSE i \in 1..Len(c) :
              /\ c[i].kind = "nan"
              /\ \A j \in 1..(i - 1) : c[j].kind # "nan"
     ELSE CHOOSE i \in 1..Len(c) :
              /\ \A j \in 1..Len(c) : ~CostGt(c[j], c[i])
              /\ \A j \in 1..(i - 1) : CostGt(c[i], c[j])) - 1

\* lines 205-207: one lower-tail profile per family, over z_left
LowerProfile(c, z) == [i \in 1..Len(z) |-> Term("lower", <<c[i], z[i]>>)]

\* lines 208-211: one upper-tail profile per family, over z_right
UpperProfile(c, z) == [i \in 1..Len(z) |-> Term("upper", <<c[i], z[i]>>)]

\* finite sums of squared deviations
FiniteCosts == [1..3 -> {IntVal(c) : c \in 0..MaxCost}]

\* line 213: [np.sum((L-l)**2) for l in left_dependence].  When threshold 0
\* is in z_left, L[0] = left/0.0 is inf and every family's C(0,0)/0.0 is
\* 0/0 = nan, so each sum is nan; otherwise the sums are floats of
\* uninterpreted formulas
LowerCosts(z_left) ==
    IF \E j \in 1..Len(z_left) : z_left[j] = 0
    THEN {<<NaN, NaN, NaN>>}
    ELSE FiniteCosts

\* line 214: [np.sum((R-r)**2) for r in right_dependence].  When threshold
\* 1.0 is in z_right, R is inf there; Clayton's and Gumbel's C(1,1) is
\* exactly 1.0, so (1-2+C)/0.0 is nan and the sum is nan; Frank's C(1,1) is
\* 1.0 up to rounding, so its entry is nan or -inf and the sum nan or inf
UpperCosts(z_right) ==
    IF \E j \in 1..Len(z_right) : z_right[j] = GridLast
    THEN {<<NaN, x, NaN>> : x \in {NaN, Inf}}
    ELSE FiniteCosts

\* line 215: cost_L + cost_R on two Python lists
CostLR(cost_L, cost_R) == cost_L \o cost_R

\* lines 199-202: the early return taken when tau <= 0
ShortCircuit(frank_c) == [bestC |-> 2, paramC |-> frank_c.theta]

\* lines 216-218
PickBest(cost_LR, theta_c) ==
    LET bestC == ArgMax(cost_LR)
    IN  IF bestC + 1 <= Len(theta_c)
        THEN [err |-> "none", bestC |-> bestC, paramC |-> theta_c[bestC + 1]]
        ELSE [err |-> "IndexError", bestC |-> bestC, paramC |-> None]

\* what is recorded of the local arrays: the threshold lists and the lengths
\* of the empirical (L, R) and theoretical (left/right_dependence) profiles
NoProfiles == [z_left |-> <<>>, z_right |-> <<>>, lenL |-> 0, lenR |-> 0,
               lenLeft |-> <<>>, lenRight |-> <<>>]

\* lines 195-214: the three fits, the early return, the empirical and the
\* theoretical profiles; sg is the sign of the float the Frank minimiser
\* stops at
SelectFit(U, V, sg) ==
    LET clayton_c == NewCopula(U, V, None, "clayton", FALSE, sg).self
        frank_c   == NewCopula(U, V, None, "frank", FALSE, sg).self
        gumbel_c  == NewCopula(U, V, None, "gumbel", FALSE, sg).self
        theta_c   == <<clayton_c.theta, frank_c.theta, gumbel_c.theta>>
        fits      == <<clayton_c, frank_c, gumbel_c>>
        base      == [op |-> "select_copula", tau |-> clayton_c.tau,
                      theta_c |-> theta_c]
        emp       == ComputeEmpirical(U, V)
        left      == [f \in 1..3 |-> Cdf(fits[f].cdf, emp.z_left, emp.z_left, fits[f].theta)]
        right     == [f \in 1..3 |-> Cdf(fits[f].cdf, emp.z_right, emp.z_right, fits[f].theta)]
        left_dependence  == [f \in 1..3 |-> LowerProfile(left[f].vals, emp.z_left)]
        right_dependence == [f \in 1..3 |-> UpperProfile(right[f].vals, emp.z_right)]
        prof      == [z_left |-> emp.z_left, z_right |-> emp.z_right,
                      lenL |-> Len(emp.L), lenR |-> Len(emp.R),
                      lenLeft |-> [f \in 1..3 |-> Len(left_dependence[f])],
                      lenRight |-> [f \in 1..3 |-> Len(right_dependence[f])]]
    IN  IF ThetaLt(clayton_c.tau, 0) \/ ThetaEq(clayton_c.tau, 0)
        THEN base @@ ShortCircuit(frank_c) @@ NoProfiles @@
             [err |-> "none", path |-> "short-circuit"]
        ELSE IF emp.err # "none"
        THEN base @@ NoProfiles @@ [err |-> emp.err, path |-> "tails"]
        ELSE IF \E f \in 1..3 : left[f].err # "none" \/ right[f].err # "none"
        THEN base @@ NoProfiles @@ [err |-> "ValueError", path |-> "tails"]
        ELSE base @@ prof @@ [err |-> "none", path |-> "tails"]

\* the whole of select_copula; cost_L and cost_R are the sums of squared
\* deviations of lines 213-214 (floats that depend on the uninterpreted CDF
\* values)
SelectCopula(fit, cost_L, cost_R) ==
    IF fit.path = "short-circuit" THEN fit
    ELSE IF fit.err # "none" THEN fit @@ [bestC |-> -1, paramC |-> None]
    ELSE LET best == PickBest(CostLR(cost_L, cost_R), fit.theta_c)
         IN  [err |-> best.err, bestC |-> best.bestC, paramC |-> best.paramC] @@ fit

-----------------------------------------------------------------------------
(* Inputs *)

Vals == (0..MaxVal) \cup {GridLast}

TieFree(s) == \A i, j \in DOMAIN s : i # j => s[i] # s[j]

Ascending(s) == \A i, j \in DOMAIN s : i < j => s[i] < s[j]

\* pseudo-observations: equal-length sequences (at least two pairs) of ranks
\* without ties, the pairs listed in increasing order of U
Inputs ==
    UNION {{u \in [1..n -> Vals] : Ascending(u)} \X {v \in [1..n -> Vals] : TieFree(v)}
           : n \in 2..MaxN}

Names == {"None", "", "clayton", "frank", "gumbel", "gaussian", "student"}

ThetaSupplied == {None, IntVal(-3)}

ThetaArgs == {IntVal(-1), IntVal(0), Rat(1, 2), IntVal(1), IntVal(2), NaN}

\* arguments of an evaluator call on an instance
EvalArgs(self) == {<<self.U, self.V>>, <<<<0>>, <<1>>>>, <<<<1>>, <<GridLast>>>>}

-----------------------------------------------------------------------------
(* The state machine: the caller holds a pair of observation sequences and  *)
(* either constructs an instance and calls one of its evaluators, or calls  *)
(* a static method                                                          *)

NoInst == [cname |-> "no instance"]
NoCtor == [err |-> "not called"]
NoOut == [op |-> "none"]

Init ==
    /\ pc = "start"
    /\ data \in Inputs
    /\ inst = NoInst
    /\ ctor = NoCtor
    /\ out = NoOut

\* c = Copula(U, V, theta, cname, dev)
Construct ==
    /\ pc = "start"
    /\ \E theta \in ThetaSupplied, cname \in Names, dev \in BOOLEAN :
         \E sg \in FrankSigns(KendallTau(data[1], data[2])) :
           LET r == NewCopula(data[1], data[2], theta, cname, dev, sg)
           IN  /\ ctor' = [theta |-> theta, cname |-> cname, dev |-> dev,
                           err |-> r.err, raisedBy |-> r.raisedBy,
                           steps |-> r.steps]
               /\ inst' = IF r.err = "none" THEN r.self ELSE NoInst
               /\ pc' = IF r.err = "none" THEN "constructed" ELSE "failed"
    /\ UNCHANGED <<data, out>>

\* c.cdf(U, V, theta)
CallCdf ==
    /\ pc = "constructed"
    /\ inst.cdf # "absent"
    /\ \E a \in EvalArgs(inst), theta \in ThetaArgs \cup {inst.theta} :
         LET r == Cdf(inst.cdf, a[1], a[2], theta)
         IN  out' = [op |-> "cdf", U |-> a[1], V |-> a[2], theta |-> theta,
                     err |-> r.err, vals |-> r.vals]
    /\ pc' = "called"
    /\ UNCHANGED <<data, inst, ctor>>

\* c.derivative(u, v, theta)
CallDerivative ==
    /\ pc = "constructed"
    /\ inst.derivative # "absent"
    /\ \E a \in EvalArgs(inst), theta \in ThetaArgs \cup {inst.theta} :
         LET r == Du(inst.derivative, a[1], a[2], theta)
         IN  out' = [op |-> "derivative", U |-> a[1], V |-> a[2], theta |-> theta,
                     err |-> r.err, vals |-> r.vals]
    /\ pc' = "called"
    /\ UNCHANGED <<data, inst, ctor>>

\* Copula.compute_empirical(u, v)
CallComputeEmpirical ==
    /\ pc = "start"
    /\ out' = [op |-> "compute_empirical"] @@ ComputeEmpirical(data[1], data[2])
    /\ pc' = "called"
    /\ UNCHANGED <<data, inst, ctor>>

\* Copula.select_copula(U, V)
CallSelectCopula ==
    /\ pc = "start"
    /\ \E sg \in FrankSigns(KendallTau(data[1], data[2])) :
         \E fit \in {SelectFit(data[1], data[2], sg)} :
           \E cost_L \in LowerCosts(fit.z_left), cost_R \in UpperCosts(fit.z_right) :
             out' = SelectCopula(fit, cost_L, cost_R)
    /\ pc' = "called"
    /\ UNCHANGED <<data, inst, ctor>>

Next ==
    \/ Construct
    \/ CallCdf
    \/ CallDerivative
    \/ CallComputeEmpirical
    \/ CallSelectCopula

Spec == Init /\ [][Next]_vars

-----------------------------------------------------------------------------
(* Properties *)

\* the constructor returned normally
Completed == ctor.err = "none"

Archimedean == {"clayton", "gumbel"}

\* the smallest theta of a family's domain
MinTheta(fam) == IF fam = "gumbel" THEN 1 ELSE 0

\* theta lies below / inside the domain of the family (nan is neither)
BelowDomain(fam, th) ==
    \/ th.kind = "rat" /\ th.n < MinTheta(fam) * th.d
    \/ th.kind = "fmin" /\ th.sign < 0

InDomain(fam, th) ==
    \/ th.kind = "rat" /\ th.n >= MinTheta(fam) * th.d
    \/ th.kind = "fmin" /\ th.sign >= 0

\* the closed forms of the estimator, written out on numerator and denominator
ClosedForm(fam, tau) ==
    IF tau.kind # "rat" THEN NaN
    ELSE IF tau.n = tau.d THEN IntVal(10000)
    ELSE IF fam = "clayton" THEN Rat(2 * tau.n, tau.d - tau.n)
    ELSE Rat(tau.d, tau.d - tau.n)

Negative(tau) == tau.kind = "rat" /\ tau.n < 0

\* C1: the CDF evaluator of a Clayton or Frank instance called with theta < 0,
\* or of a Gumbel instance called with theta < 1, ends in the ValueError and
\* returns no values; called with a theta inside the domain it does not raise
\* and returns one value per pair.
C1_CdfDomainError ==
    out.op = "cdf" =>
        /\ BelowDomain(inst.cname, out.theta) =>
               out.err = "ValueError" /\ out.vals = <<>>
        /\ InDomain(inst.cname, out.theta) =>
               out.err = "none" /\ Len(out.vals) = Len(out.U)

C1_Witness ==
    /\ out.op = "cdf"
    /\ inst.cname = "gumbel"
    /\ out.theta = Rat(1, 2)
    /\ out.err = "ValueError"

C3_IndexNamesFamily ==
    out.op = "select_copula" =>
        /\ out.err # "IndexError"
        /\ out.err = "none" =>
               /\ out.bestC \in 0..2
               /\ out.paramC = out.theta_c[out.bestC + 1]

\* the position of Frank, counted from 0, in theta_c of line 198
FrankIndex == 1

\* C4: when tau <= 0 select_copula returns early with Frank: the index is the
\* one that denotes Frank in [clayton, frank, gumbel] and the parameter is
\* Frank's fitted theta.
C4_ShortCircuitIsFrank ==
    out.op = "select_copula" /\ (Negative(out.tau) \/ out.tau = IntVal(0)) =>
        /\ out.path = "short-circuit"
        /\ out.bestC = FrankIndex
        /\ out.paramC = out.theta_c[FrankIndex + 1]

\* C5: after a construction that completes, tau has been computed; the CDF
\* evaluator and an estimated theta are present exactly when a family was
\* given; the derivative evaluator is present exactly when it was requested;
\* the steps ran in the order tau, theta, CDF evaluator, derivative evaluator.
C5_Lifecycle ==
    Completed =>
        /\ inst.tau = KendallTau(data[1], data[2])
        /\ inst.cdf # "absent" <=> Truthy(ctor.cname)
        /\ (\E i \in DOMAIN ctor.steps : ctor.steps[i] = "_get_parameter")
               <=> Truthy(ctor.cname)
        /\ Truthy(ctor.cname) => inst.theta # None
        /\ ~Truthy(ctor.cname) => inst.theta = ctor.theta
        /\ inst.derivative # "absent" <=> ctor.dev
        /\ ctor.steps = <<"kendalltau">>
               \o (IF Truthy(ctor.cname) THEN <<"_get_parameter", "_get_cdf">> ELSE <<>>)
               \o (IF ctor.dev THEN <<"_get_du">> ELSE <<>>)

C5_Witness ==
    /\ Completed
    /\ ctor.cname = "clayton"
    /\ ctor.dev
    /\ Len(ctor.steps) = 4
    /\ inst.derivative = "clayton"

\* C6: for Clayton and Gumbel the estimated theta depends on tau alone: it is
\* 10000 when tau is exactly 1, otherwise 2*tau/(1-tau) for Clayton and
\* 1/(1-tau) for Gumbel, and it is 10000 for no other tau.
C6_SentinelOnlyAtOne ==
    Completed /\ inst.cname \in Archimedean =>
        /\ inst.tau = IntVal(1) => inst.theta = IntVal(10000)
        /\ inst.tau # IntVal(1) /\ inst.tau.kind = "rat" =>
               inst.theta =
                   IF inst.cname = "clayton"
                   THEN Rat(2 * inst.tau.n, inst.tau.d - inst.tau.n)
                   ELSE Rat(inst.tau.d, inst.tau.d - inst.tau.n)
        /\ inst.theta = IntVal(10000) => inst.tau = IntVal(1)

C6_Witness ==
    /\ Completed
    /\ inst.cname = "clayton"
    /\ inst.tau = IntVal(1)
    /\ inst.theta = IntVal(10000)
    /\ ctor.theta = IntVal(-3)

\* C7: the derivative evaluator called with a theta below the family's domain
\* (Clayton or Frank theta < 0, Gumbel theta < 1) ends in the ValueError and
\* returns no value, for every family.
C7_DerivativeDomainError ==
    out.op = "derivative" /\ BelowDomain(inst.cname, out.theta) =>
        out.err = "ValueError" /\ out.vals = <<>>

\* C8: constructing a Clayton or Gumbel instance never fails on the domain of
\* the estimated theta: it completes and stores the estimate, which for
\* tau < 0 lies below the family's minimum; the ValueError comes only when the
\* CDF evaluator is called with that theta.
C8_DomainErrorOnlyAtCall ==
    /\ ctor.err # "not called" /\ ctor.cname \in Archimedean =>
           /\ Completed
           /\ inst.theta = ClosedForm(inst.cname, inst.tau)
           /\ Negative(inst.tau) => BelowDomain(inst.cname, inst.theta)
    /\ out.op = "cdf" /\ inst.cname \in Archimedean
           /\ out.theta = inst.theta /\ Negative(inst.tau) =>
           out.err = "ValueError"

C8_Witness ==
    /\ out.op = "cdf"
    /\ inst.cname = "gumbel"
    /\ Negative(inst.tau)
    /\ out.theta = inst.theta
    /\ out.err = "ValueError"
    /\ Completed

\* the joint counts of compute_empirical, read off the caller's data
LowerHits(k) == {i \in DOMAIN data[1] : data[1][i] <= k /\ data[2][i] <= k}
UpperHits(k) == {i \in DOMAIN data[1] : data[1][i] >= k /\ data[2][i] >= k}

Increasing(z) == \A j \in 1..(Len(z) - 1) : z[j] < z[j + 1]

Elements(z) == {z[j] : j \in 1..Len(z)}

\* C9: compute_empirical never fails on an index; per tail the threshold list
\* is increasing and holds exactly the thresholds whose joint count is
\* positive, the statistic list has the same length and its entry j is
\* computed from threshold j; the theoretical profiles of select_copula are
\* taken on the same threshold lists and have the lengths of the empirical ones.
C9_ProfilesAligned ==
    /\ out.op = "compute_empirical" =>
           /\ out.err = "none"
           /\ Increasing(out.z_left) /\ Increasing(out.z_right)
           /\ Elements(out.z_left) = {k \in 0..GridLast : LowerHits(k) # {}}
           /\ Elements(out.z_right) = {k \in 0..GridLast : UpperHits(k) # {}}
           /\ Len(out.L) = Len(out.z_left) /\ Len(out.R) = Len(out.z_right)
           /\ \A j \in 1..Len(out.L) :
                  out.L[j] = LeftStat(Cardinality(LowerHits(out.z_left[j])),
                                      Len(data[1]), out.z_left[j])
           /\ \A j \in 1..Len(out.R) :
                  out.R[j] = RightStat(Cardinality(UpperHits(out.z_right[j])),
                                       Len(data[1]), out.z_right[j])
    /\ out.op = "select_copula" /\ out.path = "tails" =>
           /\ out.err \in {"none", "ValueError", "IndexError"}
           /\ Len(out.lenLeft) = 3 =>
                  /\ Elements(out.z_left) = {k \in 0..GridLast : LowerHits(k) # {}}
                  /\ Elements(out.z_right) = {k \in 0..GridLast : UpperHits(k) # {}}
                  /\ out.lenL = Len(out.z_left) /\ out.lenR = Len(out.z_right)
                  /\ \A f \in 1..3 : out.lenLeft[f] = out.lenL
                  /\ \A f \in 1..3 : out.lenRight[f] = out.lenR

C9_Witness ==
    /\ out.op = "compute_empirical"
    /\ out.err = "none"
    /\ Len(out.z_left) < GridSize
    /\ Len(out.z_right) > 1
    /\ Len(out.z_right) < GridSize
    /\ Len(out.R) = Len(out.z_right)

\* the theta a value was computed with: the last argument of its formula,
\* and for the Gumbel derivative also the theta of its CDF term
UsesTheta(x, th) ==
    x.kind = "term" =>
        /\ x.args[Len(x.args)] = th
        /\ x.fn = "gumbel_du" /\ x.args[1].kind = "term" =>
               x.args[1].fn = "gumbel_cdf" /\ x.args[1].args[3] = th

\* C10: a theta supplied to the constructor survives only when no family is
\* given; with clayton, frank or gumbel the stored theta is the estimate
\* derived from tau whatever was supplied.  Evaluators compute with the theta
\* passed to the call, and the auxiliary instance of the Gumbel derivative
\* does not change the theta of the derivative's CDF term.
C10_SuppliedThetaOverwritten ==
    /\ Completed /\ ~Truthy(ctor.cname) => inst.theta = ctor.theta
    /\ Completed /\ ctor.cname \in Archimedean =>
           inst.theta = ClosedForm(ctor.cname, inst.tau)
    /\ Completed /\ ctor.cname = "frank" =>
           inst.theta.kind = "fmin" /\ inst.theta.tau = inst.tau
    /\ out.op \in {"cdf", "derivative"} /\ out.err = "none" =>
           /\ Len(out.vals) = Len(out.U)
           /\ \A i \in 1..Len(out.vals) : UsesTheta(out.vals[i], out.theta)

C10_Witness ==
    /\ out.op = "derivative"
    /\ inst.derivative = "gumbel"
    /\ out.err = "none"
    /\ out.theta = IntVal(2)
    /\ GumbelAux(out.U, out.V, out.theta).theta # out.theta
    /\ out.vals[1].kind = "term"
    /\ ctor.theta = IntVal(-3)
    /\ inst.theta # ctor.theta

=============================================================================
